---- MODULE Spec2Model ----
(***************************************************************************)
(* A model of slackcli's dual-mode API client (src/lib/slack-client.ts)    *)
(* and of the mark-read command (src/commands/conversations.ts).           *)
(*                                                                         *)
(* JavaScript values are records [t, s, n]: t is the type tag, s the text  *)
(* of a string (a sequence of atoms: an atom is a piece of text that is    *)
(* never split), n the value of a number (or 1/0 for a boolean).           *)
(* An object is a function from its own keys to values: a key that is      *)
(* present with the value undefined is in the DOMAIN, an absent key is not.*)
(***************************************************************************)
EXTENDS Integers, Sequences, FiniteSets, TLC

VARIABLES
    config,       \* the configuration object the client holds a reference to
    webClient,    \* whether the constructor created the library client
    mutated,      \* whether the owner of the configuration object has changed it
    pc,           \* where the caller of the client is
    op,           \* the operation under way: its name and its arguments
    calls,        \* the request() calls of the operation, each with its outcome
    wire,         \* the calls the operation put on the network
    result,       \* what the operation returned or raised
    idx,          \* the loop index of getUsersInfo and uploadFiles
    users,        \* getUsersInfo: the users resolved so far
    fileEntries,  \* uploadFiles: the entries accumulated so far
    transfers,    \* uploadFiles: the direct uploads made
    progress,     \* uploadFiles: what the progress sink was told
    inflight,     \* the calls issued and not yet settled
    local,        \* the other locals of the operation under way
    procs         \* the operations run concurrently on the one client

vars == <<config, webClient, mutated, pc, op, calls, wire, result,
          idx, users, fileEntries, transfers, progress, inflight, local,
          procs>>

----------------------------------------------------------------------------
(* Bounds of the model *)

\* the longest list of user identifiers handed to getUsersInfo
MaxUsers == 3
\* the longest list of file paths handed to uploadFiles
MaxFiles == 2
\* the most conversations with unread messages client.counts reports
MaxUnreads == 3
\* the longest list handed to an operation that runs next to another one
MaxConcurrent == 2

----------------------------------------------------------------------------
(* JavaScript values *)

Undefined == [t |-> "undefined", s |-> <<>>, n |-> 0]
Str(s) == [t |-> "string", s |-> s, n |-> 0]
Num(n) == [t |-> "number", s |-> <<>>, n |-> n]
Bool(b) == [t |-> "boolean", s |-> <<>>, n |-> IF b THEN 1 ELSE 0]
\* an object, an array (s holds its elements) and a function are truthy
Obj(s) == [t |-> "object", s |-> s, n |-> 1]
Arr(s) == [t |-> "array", s |-> s, n |-> 1]
Fn == [t |-> "function", s |-> <<>>, n |-> 1]

\* JavaScript truthiness: what `if (x)` and `x || y` test
Truthy(v) ==
    CASE v.t = "undefined" -> FALSE
      [] v.t = "string" -> v.s # <<>>
      [] v.t = "number" -> v.n # 0
      [] OTHER -> v.n = 1

DigitAtom(d) == <<"0", "1", "2", "3", "4", "5", "6", "7", "8", "9">>[d + 1]

RECURSIVE Digits(_)
\* the decimal text of a natural number, one atom per digit
Digits(n) == IF n < 10 THEN <<DigitAtom(n)>>
             ELSE Append(Digits(n \div 10), DigitAtom(n % 10))

\* String(v), which is also how URLSearchParams turns a value into text
ToStringJS(v) ==
    CASE v.t = "undefined" -> <<"undefined">>
      [] v.t = "string" -> v.s
      [] v.t = "number" -> Digits(v.n)
      [] OTHER -> IF v.n = 1 THEN <<"true">> ELSE <<"false">>

\* obj[key]: undefined when the object has no such key
Get(obj, key) == IF key \in DOMAIN obj THEN obj[key] ELSE Undefined

\* obj[key] = v on an object
Put(obj, key, v) ==
    [k \in DOMAIN obj \cup {key} |-> IF k = key THEN v ELSE obj[k]]

\* `if (options.key) params.key = options.key`
PutIfTruthy(obj, key, v) == IF Truthy(v) THEN Put(obj, key, v) ELSE obj

EmptyObj == [k \in {} |-> Undefined]

\* an object literal { ...base, ...over }
Spread(base, over) ==
    [k \in DOMAIN base \cup DOMAIN over |->
        IF k \in DOMAIN over THEN over[k] ELSE base[k]]

\* an options object written as a record over all its keys, where the value
\* Absent of a key stands for the key being left out of the object
Absent == [t |-> "absent", s |-> <<>>, n |-> 0]
Drop(f) == [k \in {x \in DOMAIN f : f[x] # Absent} |-> f[k]]

----------------------------------------------------------------------------
(* Failures *)

Prefix == "Slack API error:"

\* new Error(message)
MkError(message) == [isError |-> TRUE, message |-> message]
\* a thrown value that is no Error (throw "text")
NonError(text) == [isError |-> FALSE, message |-> text]

\* err instanceof Error ? err.message : String(err)
ErrMessage(err) == err.message

\* `Slack API error: ${message}`
Wrap(message) == <<Prefix, " ">> \o message

\* message.startsWith('Slack API error:')
StartsWithPrefix(message) == Len(message) >= 1 /\ message[1] = Prefix

NoErr == [isError |-> FALSE, message |-> <<>>]
NoData == [ok |-> FALSE, error |-> Undefined, payload |-> <<>>]
Return(data) == [kind |-> "return", data |-> data, err |-> NoErr]
Throw(err) == [kind |-> "throw", data |-> NoData, err |-> err]
NoResult == [kind |-> "none", data |-> NoData, err |-> NoErr]

----------------------------------------------------------------------------
(* Configurations (types/index.ts: StandardAuthConfig, BrowserAuthConfig) *)

StandardConfig ==
    [auth_type |-> "standard", token |-> Str(<<"xoxb-1">>)]
BrowserConfig ==
    [auth_type |-> "browser",
     workspace_url |-> Str(<<"https://w.slack.com">>),
     xoxd_token |-> Str(<<"xoxd-", "/", "a">>),
     xoxc_token |-> Str(<<"xoxc-1">>)]
Configs == {StandardConfig, BrowserConfig}

----------------------------------------------------------------------------
(* What the world answers to one remote call *)

\* values a failing library call, fetch or response.json() may throw
Thrown ==
    {MkError(<<"socket hang up">>),
     MkError(<<Prefix, " ", "ratelimited">>),
     NonError(<<Prefix, " ", "ratelimited">>)}

\* the error codes a server may put in a body with ok = false
ErrorCodes ==
    {Undefined, Str(<<>>), Str(<<"channel_not_found">>),
     Str(<<Prefix, " ", "ratelimited">>)}

Statuses == {200, 299, 300, 500}

\* Response.ok of fetch: the status is in the range 200-299
ResponseOk(status) == status >= 200 /\ status <= 299

OkData(payload) == [ok |-> TRUE, error |-> Undefined, payload |-> payload]
FailData(code) == [ok |-> FALSE, error |-> code, payload |-> <<>>]

\* WebClient.apiCall either returns the decoded body of an ok response or throws
LibOutcomes(payloads) ==
    {[by |-> "standard", kind |-> "throw", err |-> e, status |-> 0,
      json |-> "none", data |-> NoData] : e \in Thrown}
    \cup {[by |-> "standard", kind |-> "return", err |-> NoErr, status |-> 0,
           json |-> "none", data |-> OkData(p)] : p \in payloads}

\* fetch either throws or delivers a response: a status and a body that
\* response.json() decodes or fails to decode
NetOutcomes(payloads) ==
    {[by |-> "browser", kind |-> "throw", err |-> e, status |-> 0,
      json |-> "none", data |-> NoData] : e \in Thrown}
    \cup {[by |-> "browser", kind |-> "http", err |-> e, status |-> st,
           json |-> "bad", data |-> NoData] :
        e \in {MkError(<<"Unexpected token">>)}, st \in Statuses}
    \cup {[by |-> "browser", kind |-> "http", err |-> NoErr, status |-> st,
           json |-> "data", data |-> d] :
        st \in Statuses,
        d \in {FailData(c) : c \in ErrorCodes} \cup {OkData(p) : p \in payloads}}

\* the answers of the world to one remote call: the transport that makes the
\* call decides which of them it can receive
Outcomes(payloads) == LibOutcomes(payloads) \cup NetOutcomes(payloads)

----------------------------------------------------------------------------
(* The transports *)

\* one call put on the network, with what the world answered
StandardSend(method, params, lib) ==
    [transport |-> "standard", method |-> method, params |-> params,
     url |-> <<>>, cookie |-> <<>>, body |-> EmptyObj,
     decoded |-> FALSE, inspected |-> FALSE, reply |-> lib]

\* the catch of standardRequest with the guard of browserRequest
NormalizeStandard_Guarded(err) ==
    IF err.isError /\ StartsWithPrefix(err.message) THEN err
    ELSE MkError(Wrap(ErrMessage(err)))

\* catch of standardRequest: every failure is wrapped
NormalizeStandard(err) == MkError(Wrap(ErrMessage(err)))

StandardRequest(method, params, lib) ==
    IF ~webClient
    THEN [net |-> <<>>, res |-> Throw(MkError(<<"WebClient not initialized">>))]
    ELSE [net |-> <<StandardSend(method, params, lib)>>,
          res |-> IF lib.kind = "return"
                  THEN Return(lib.data)
                  ELSE Throw(NormalizeStandard(lib.err))]

\* encodeURIComponent on the atoms that are reserved characters
EncodeURIComponent(s) ==
    [i \in 1..Len(s) |->
        CASE s[i] = "/" -> "%2F"
          [] s[i] = "+" -> "%2B"
          [] s[i] = "=" -> "%3D"
          [] OTHER -> s[i]]

\* new URLSearchParams({ token: this.config.xoxc_token, ...params }): every
\* key of the object literal becomes a pair, its value turned into text
FormBody(params) ==
    LET obj == Spread([token |-> Get(config, "xoxc_token")], params)
    IN  [k \in DOMAIN obj |-> ToStringJS(obj[k])]

\* how far the try block got: its outcome, whether response.json() was
\* called (decoded) and whether data.ok was read (inspected)
Attempt(res, decoded, inspected) ==
    [res |-> res, decoded |-> decoded, inspected |-> inspected]

\* the failure of a body with ok = false without the fallback text
ApiFailure_NoFallback(data) == MkError(ToStringJS(data.error))

\* the failure of a body with ok = false
ApiFailure(data) ==
    MkError(IF Truthy(data.error) THEN data.error.s ELSE <<"Unknown API error">>)

\* the try block with the body decoded before the status is looked at
BrowserTry_DecodeFirst(net) ==
    IF net.kind = "throw" THEN Attempt(Throw(net.err), FALSE, FALSE)
    ELSE IF net.json = "bad" THEN Attempt(Throw(net.err), TRUE, FALSE)
    ELSE IF ~net.data.ok THEN Attempt(Throw(ApiFailure(net.data)), TRUE, TRUE)
    ELSE IF ~ResponseOk(net.status)
    THEN Attempt(Throw(MkError(<<"HTTP error! status: ">> \o Digits(net.status))),
                 TRUE, TRUE)
    ELSE Attempt(Return(net.data), TRUE, TRUE)

\* the try block of browserRequest after fetch has answered
BrowserTry(net) ==
    IF net.kind = "throw" THEN Attempt(Throw(net.err), FALSE, FALSE)
    ELSE IF ~ResponseOk(net.status)
    THEN Attempt(Throw(MkError(<<"HTTP error! status: ">> \o Digits(net.status))),
                 FALSE, FALSE)
    ELSE IF net.json = "bad" THEN Attempt(Throw(net.err), TRUE, FALSE)
    ELSE IF ~net.data.ok THEN Attempt(Throw(ApiFailure(net.data)), TRUE, TRUE)
    ELSE Attempt(Return(net.data), TRUE, TRUE)

\* the catch without its guard: every failure is wrapped
NormalizeBrowser_NoGuard(err) == MkError(Wrap(ErrMessage(err)))

\* catch of browserRequest: a failure already normalized is thrown again as
\* it is, every other one is wrapped
NormalizeBrowser(err) ==
    IF err.isError /\ StartsWithPrefix(err.message) THEN err
    ELSE MkError(Wrap(ErrMessage(err)))

BrowserSend(method, params, net) ==
    [transport |-> "browser", method |-> method, params |-> EmptyObj,
     url |-> ToStringJS(Get(config, "workspace_url")) \o <<"/api/", method>>,
     cookie |-> <<"d=">> \o EncodeURIComponent(ToStringJS(Get(config, "xoxd_token"))),
     body |-> FormBody(params),
     decoded |-> BrowserTry(net).decoded, inspected |-> BrowserTry(net).inspected,
     reply |-> net]

\* browserRequest without its test of the configuration's mode
BrowserRequest_NoGuard(method, params, net) ==
    LET r == BrowserTry(net).res
    IN  [net |-> <<BrowserSend(method, params, net)>>,
         res |-> IF r.kind = "throw" THEN Throw(NormalizeBrowser(r.err)) ELSE r]

BrowserRequest(method, params, net) ==
    IF config.auth_type # "browser"
    THEN [net |-> <<>>, res |-> Throw(MkError(<<"Invalid auth type">>))]
    ELSE LET r == BrowserTry(net).res
         IN  [net |-> <<BrowserSend(method, params, net)>>,
              res |-> IF r.kind = "throw" THEN Throw(NormalizeBrowser(r.err)) ELSE r]

\* request() that sends a failed call a second time
Request_RetryOnce(method, params, env) ==
    LET r == IF config.auth_type = "standard"
             THEN StandardRequest(method, params, env)
             ELSE BrowserRequest(method, params, env)
    IN  IF r.res.kind = "throw" THEN [net |-> r.net \o r.net, res |-> r.res]
        ELSE r

\* request(): the transport is chosen by the configuration's auth_type
Request(method, params, env) ==
    IF config.auth_type = "standard"
    THEN StandardRequest(method, params, env)
    ELSE BrowserRequest(method, params, env)

\* the answer env is one the transport that made the call can receive
Answers(env, r) == \A i \in DOMAIN r.net : r.net[i].transport = env.by

----------------------------------------------------------------------------
(* Parameter shaping of the facade operations *)

\* listConversations hands its options object to request() as it is
ListConversationsParams(options) == options

MarkConversationReadParams(channel, ts) == [channel |-> channel, ts |-> ts]

\* String(Date.now() / 1000) is a text the clock decides
GetThreadsViewParams(options, now) ==
    LET p0 == [current_ts |-> Str(now)]
        p1 == IF Truthy(Get(options, "limit"))
              THEN Put(p0, "limit", Str(ToStringJS(Get(options, "limit")))) ELSE p0
    IN  PutIfTruthy(p1, "max_ts", Get(options, "max_ts"))

GetConversationInfoParams(channel) == [channel |-> channel]

\* the option lines shared by getConversationHistory and getConversationReplies
HistoryOptions(p0, options) ==
    LET p1 == PutIfTruthy(p0, "cursor", Get(options, "cursor"))
        p2 == PutIfTruthy(p1, "latest", Get(options, "latest"))
        p3 == PutIfTruthy(p2, "oldest", Get(options, "oldest"))
        p4 == IF Get(options, "inclusive") # Undefined
              THEN Put(p3, "inclusive", Get(options, "inclusive")) ELSE p3
    IN  PutIfTruthy(p4, "limit", Get(options, "limit"))

GetConversationHistoryParams(channel, options) ==
    HistoryOptions([channel |-> channel], options)

GetConversationRepliesParams(channel, ts, options) ==
    HistoryOptions([channel |-> channel, ts |-> ts], options)

\* postMessage with the text left out when it is empty
PostMessageParams_TextIfTruthy(channel, text, options) ==
    PutIfTruthy(PutIfTruthy([channel |-> channel], "text", text), "thread_ts",
                Get(options, "thread_ts"))

PostMessageParams(channel, text, options) ==
    PutIfTruthy([channel |-> channel, text |-> text], "thread_ts",
                Get(options, "thread_ts"))

GetUserInfoParams(userId) == [user |-> userId]

OpenConversationParams(userList) == [users |-> userList]

ReactionParams(channel, timestamp, name) ==
    [channel |-> channel, timestamp |-> timestamp, name |-> name]

\* searchAll with count and page put in the mapping as they are
SearchAllParams_Verbatim(query, options) ==
    LET p1 == PutIfTruthy([query |-> query], "sort", Get(options, "sort"))
        p2 == PutIfTruthy(p1, "sort_dir", Get(options, "sort_dir"))
        p3 == PutIfTruthy(p2, "count", Get(options, "count"))
    IN  PutIfTruthy(p3, "page", Get(options, "page"))

SearchAllParams(query, options) ==
    LET p1 == PutIfTruthy([query |-> query], "sort", Get(options, "sort"))
        p2 == PutIfTruthy(p1, "sort_dir", Get(options, "sort_dir"))
        p3 == IF Truthy(Get(options, "count"))
              THEN Put(p2, "count", Str(ToStringJS(Get(options, "count")))) ELSE p2
    IN  IF Truthy(Get(options, "page"))
        THEN Put(p3, "page", Str(ToStringJS(Get(options, "page")))) ELSE p3

GetUploadUrlParams(filename, length) ==
    [filename |-> filename, length |-> Str(ToStringJS(length))]

\* JSON.stringify of one { id, title? } entry: a key whose value is undefined
\* is left out of the text
JsonEntry(e) ==
    <<"{", "id:">> \o ToStringJS(e["id"])
    \o (IF Get(e, "title") # Undefined
        THEN <<",", "title:">> \o ToStringJS(e["title"]) ELSE <<>>)
    \o <<"}">>

RECURSIVE JsonEntries(_)
JsonEntries(files) ==
    IF files = <<>> THEN <<>>
    ELSE JsonEntry(Head(files))
         \o (IF Len(files) > 1 THEN <<",">> ELSE <<>>)
         \o JsonEntries(Tail(files))

\* JSON.stringify(files)
JsonStringify(files) == <<"[">> \o JsonEntries(files) \o <<"]">>

\* completeUpload leaving `files` out when there is no entry
CompleteUploadParams_FilesIfAny(files, options) ==
    LET p0 == IF files = <<>> THEN EmptyObj ELSE [files |-> Str(JsonStringify(files))]
        p1 == PutIfTruthy(p0, "channel_id", Get(options, "channel_id"))
        p2 == PutIfTruthy(p1, "thread_ts", Get(options, "thread_ts"))
    IN  PutIfTruthy(p2, "initial_comment", Get(options, "initial_comment"))

CompleteUploadParams(files, options) ==
    LET p1 == PutIfTruthy([files |-> Str(JsonStringify(files))], "channel_id",
                          Get(options, "channel_id"))
        p2 == PutIfTruthy(p1, "thread_ts", Get(options, "thread_ts"))
    IN  PutIfTruthy(p2, "initial_comment", Get(options, "initial_comment"))

----------------------------------------------------------------------------
(* The arguments callers pass *)

\* a required string argument: some text, or the empty text
Texts == {Str(<<"C1">>), Str(<<>>)}
OneText == {Str(<<"C1">>)}
\* an optional string: left out, undefined, empty, or some text
OptTexts == {Absent, Undefined, Str(<<>>), Str(<<"x">>)}
Lengths == {Num(0), Num(12)}
Clock == {<<"1700", ".", "5">>}

ListOptions ==
    {Drop(f) : f \in [types : {Absent, Str(<<"im">>)},
                      limit : {Absent, Undefined, Num(100)},
                      exclude_archived : {Absent, Bool(FALSE)},
                      cursor : OptTexts]}

ThreadsOptions ==
    {Drop(f) : f \in [limit : {Absent, Undefined, Num(0), Num(20)},
                      max_ts : OptTexts]}

HistoryOptionSets ==
    {Drop(f) : f \in [cursor : OptTexts,
                      latest : {Absent, Str(<<"9">>)},
                      oldest : {Absent, Str(<<>>)},
                      inclusive : {Absent, Undefined, Bool(FALSE)},
                      limit : {Absent, Num(0), Num(5)}]}

RepliesOptionSets ==
    {Drop(f) : f \in [cursor : OptTexts,
                      latest : {Absent},
                      oldest : {Absent},
                      inclusive : {Absent, Bool(TRUE)},
                      limit : {Absent, Undefined, Num(5)}]}

PostOptions == {Drop(f) : f \in [thread_ts : OptTexts]}

SearchOptions ==
    {Drop(f) : f \in [sort : {Absent, Str(<<>>), Str(<<"score">>)},
                      sort_dir : {Absent, Str(<<"asc">>)},
                      count : {Absent, Undefined, Num(0), Num(20)},
                      page : {Absent, Num(2)}]}

CompleteOptions ==
    {Drop(f) : f \in [channel_id : {Absent, Undefined, Str(<<"C1">>)},
                      thread_ts : {Absent, Str(<<>>), Str(<<"1700.1">>)},
                      initial_comment : {Absent, Str(<<"hi">>)}]}

\* the entry lists handed to completeUpload when it is called on its own
EntryLists ==
    {<<>>, <<[id |-> Str(<<"F1">>)]>>,
     <<[id |-> Str(<<"F1">>), title |-> Str(<<"t">>)], [id |-> Str(<<"F2">>)]>>}

\* parameter objects handed to request() directly
RawParams ==
    {Drop(f) : f \in [channel : {Absent, Str(<<"C1">>)},
                      cursor : OptTexts,
                      token : {Absent, Str(<<"other">>)}]}

NoPayload == {<<>>}
UserPayloads(userId) == {[user |-> Obj(userId.s)], [user |-> Undefined]}
MessagePayloads ==
    {[messages |-> <<>>],
     [messages |-> <<[ts |-> Str(<<"1700.1">>)]>>],
     [messages |-> <<[ts |-> Str(<<"1700.2">>)], [ts |-> Str(<<"1700.1">>)]>>]}
SlotPayloads ==
    {[upload_url |-> Str(<<"https://files/", f>>), file_id |-> Str(<<f>>)] :
        f \in {"F1", "F2"}}

----------------------------------------------------------------------------
(* The client and single-call operations *)

NoOp == [name |-> "none", args |-> EmptyObj]

\* the call sites that use the one client at the same time
Procs == {1, 2}

\* a call site that has not called the client yet
IdleProc ==
    [pc |-> "idle", op |-> NoOp, calls |-> <<>>, idx |-> 0, local |-> EmptyObj,
     result |-> NoResult, transfers |-> <<>>, users |-> <<>>,
     fileEntries |-> <<>>]

\* new SlackClient(config)
Construct(c) ==
    /\ config' = c
    /\ webClient' = (c.auth_type = "standard")
    /\ mutated' = FALSE
    /\ pc' = "ready"
    /\ op' = NoOp
    /\ calls' = <<>>
    /\ wire' = <<>>
    /\ result' = NoResult
    /\ idx' = 0
    /\ users' = <<>>
    /\ fileEntries' = <<>>
    /\ transfers' = <<>>
    /\ progress' = <<>>
    /\ inflight' = {}
    /\ procs' = [p \in Procs |-> IdleProc]
    /\ local' = EmptyObj

Init ==
    /\ \E c \in Configs :
         /\ config = c
         /\ webClient = (c.auth_type = "standard")
    /\ mutated = FALSE
    /\ pc = "ready"
    /\ op = NoOp
    /\ calls = <<>>
    /\ wire = <<>>
    /\ result = NoResult
    /\ idx = 0
    /\ users = <<>>
    /\ fileEntries = <<>>
    /\ transfers = <<>>
    /\ progress = <<>>
    /\ inflight = {}
    /\ procs = [p \in Procs |-> IdleProc]
    /\ local = EmptyObj

\* the next run of the program builds its client anew
NewClient == pc = "done" /\ \E c \in Configs : Construct(c)

\* what the owner of the configuration object may write into it: the fields
\* of the other mode, or a mode the client does not know
Writes == Configs \cup {[auth_type |-> "legacy"]}

\* the constructor keeps a reference to the configuration object, so a write
\* by the owner of that object is seen by the client
MutateConfig ==
    /\ pc = "ready"
    /\ ~mutated
    /\ \E c \in Writes :
         /\ c.auth_type # config.auth_type
         /\ config' = Spread(config, c)
    /\ mutated' = TRUE
    /\ UNCHANGED <<webClient, pc, op, calls, wire, result, idx, users,
                   fileEntries, transfers, progress, local, inflight,
                   procs>>

\* one request() call as the operation under way sees it
CallRecord(method, params, r) ==
    [method |-> method, params |-> params, res |-> r.res, sent |-> r.net]

\* a facade operation that is one request() call
Facade(name, args, method, params, payloads) ==
    /\ pc = "ready"
    /\ \E env \in Outcomes(payloads) :
         LET r == Request(method, params, env)
         IN  /\ Answers(env, r)
             /\ calls' = <<CallRecord(method, params, r)>>
             /\ wire' = r.net
             /\ result' = r.res
    /\ op' = [name |-> name, args |-> args]
    /\ pc' = "done"
    /\ UNCHANGED <<config, webClient, mutated, idx, users, fileEntries,
                   transfers, progress, local, inflight, procs>>

RawRequest ==
    \E p \in RawParams :
        Facade("request", [params |-> p], "api.test", p, NoPayload)

TestAuth == Facade("testAuth", EmptyObj, "auth.test", EmptyObj, NoPayload)

ListConversations ==
    \E o \in ListOptions :
        Facade("listConversations", [options |-> o], "conversations.list",
               ListConversationsParams(o), NoPayload)

MarkConversationRead ==
    \E c \in Texts, t \in Texts :
        Facade("markConversationRead", [channel |-> c, ts |-> t],
               "conversations.mark", MarkConversationReadParams(c, t), NoPayload)

GetClientCounts ==
    Facade("getClientCounts", EmptyObj, "client.counts", EmptyObj, NoPayload)

GetThreadsView ==
    \E o \in ThreadsOptions, now \in Clock :
        Facade("getThreadsView", [options |-> o],
               "subscriptions.thread.getView", GetThreadsViewParams(o, now),
               NoPayload)

GetConversationInfo ==
    \E c \in Texts :
        Facade("getConversationInfo", [channel |-> c], "conversations.info",
               GetConversationInfoParams(c), NoPayload)

GetConversationHistory ==
    \E c \in OneText, o \in HistoryOptionSets :
        Facade("getConversationHistory", [channel |-> c, options |-> o],
               "conversations.history", GetConversationHistoryParams(c, o),
               MessagePayloads)

GetConversationReplies ==
    \E c \in OneText, t \in Texts, o \in RepliesOptionSets :
        Facade("getConversationReplies", [channel |-> c, ts |-> t, options |-> o],
               "conversations.replies", GetConversationRepliesParams(c, t, o),
               MessagePayloads)

PostMessage ==
    \E c \in Texts, t \in Texts, o \in PostOptions :
        Facade("postMessage", [channel |-> c, text |-> t, options |-> o],
               "chat.postMessage", PostMessageParams(c, t, o), NoPayload)

GetUserInfo ==
    \E u \in Texts :
        Facade("getUserInfo", [userId |-> u], "users.info",
               GetUserInfoParams(u), UserPayloads(u))

OpenConversation ==
    \E u \in Texts :
        Facade("openConversation", [users |-> u], "conversations.open",
               OpenConversationParams(u), NoPayload)

AddReaction ==
    \E c \in OneText, t \in Texts, n \in Texts :
        Facade("addReaction", [channel |-> c, timestamp |-> t, name |-> n],
               "reactions.add", ReactionParams(c, t, n), NoPayload)

RemoveReaction ==
    \E c \in OneText, t \in Texts, n \in Texts :
        Facade("removeReaction", [channel |-> c, timestamp |-> t, name |-> n],
               "reactions.remove", ReactionParams(c, t, n), NoPayload)

SearchAll ==
    \E q \in Texts, o \in SearchOptions :
        Facade("searchAll", [query |-> q, options |-> o], "search.all",
               SearchAllParams(q, o), NoPayload)

GetUploadUrl ==
    \E f \in Texts, n \in Lengths :
        Facade("getUploadUrl", [filename |-> f, length |-> n],
               "files.getUploadURLExternal", GetUploadUrlParams(f, n),
               SlotPayloads)

CompleteUpload ==
    \E e \in EntryLists, o \in CompleteOptions :
        Facade("completeUpload", [files |-> Arr(e), options |-> o],
               "files.completeUploadExternal", CompleteUploadParams(e, o),
               NoPayload)

SingleCall ==
    \/ RawRequest
    \/ TestAuth
    \/ ListConversations
    \/ MarkConversationRead
    \/ GetClientCounts
    \/ GetThreadsView
    \/ GetConversationInfo
    \/ GetConversationHistory
    \/ GetConversationReplies
    \/ PostMessage
    \/ GetUserInfo
    \/ OpenConversation
    \/ AddReaction
    \/ RemoveReaction
    \/ SearchAll
    \/ GetUploadUrl
    \/ CompleteUpload

----------------------------------------------------------------------------
(* Operations of several calls *)

\* the answers the calls inside a loop are given: one of each kind
SomeOutcomes(payloads) ==
    {o \in Outcomes(payloads) :
        /\ o.kind = "throw" => o.err = MkError(<<"socket hang up">>)
        /\ o.kind = "http" =>
             /\ o.json = "data"
             /\ o.status = 200 \/ (o.status = 300 /\ o.data.ok)
             /\ ~o.data.ok => o.data.error = Str(<<"channel_not_found">>)}

UserIds == {Str(<<"U1">>), Str(<<"U2">>)}

RECURSIVE SeqsUpTo(_, _)
\* the sequences over S of length at most n
SeqsUpTo(S, n) ==
    IF n = 0 THEN {<<>>}
    ELSE LET shorter == SeqsUpTo(S, n - 1)
         IN  shorter \cup {Append(q, x) : q \in shorter, x \in S}

\* a slot request or transfer that is not awaited: the loop goes on at once
Awaiting_NoAwaitTransfer(step) ==
    CASE step = "slot" -> "slotwait"
      [] step = "transfer" -> "slot"
      [] OTHER -> "userswait"

\* a user lookup that is not awaited: the loop goes on at once
Awaiting_NoAwaitLookup(step) ==
    CASE step = "slot" -> "slotwait"
      [] step = "transfer" -> "transferwait"
      [] OTHER -> "users"

\* `await`: after issuing a call the loop stands still until it is settled
Awaiting(step) ==
    CASE step = "slot" -> "slotwait"
      [] step = "transfer" -> "transferwait"
      [] OTHER -> "userswait"

\* a call of the operation under way that is issued and not settled, for
\* item i of its list
Pending(step, i) == [step |-> step, file |-> i]

\* getUsersInfo(userIds): up to the loop
GetUsersInfoStart ==
    /\ pc = "ready"
    /\ \E ids \in SeqsUpTo(UserIds, MaxUsers) :
         op' = [name |-> "getUsersInfo", args |-> [userIds |-> ids]]
    /\ pc' = "users"
    /\ idx' = 1
    /\ users' = <<>>
    /\ UNCHANGED <<config, webClient, mutated, calls, wire, result,
                   fileEntries, transfers, progress, local, inflight,
                   procs>>

\* the loop body without its test of the response: whatever came back is kept
UsersAfter_NoTest(resolved, res) ==
    IF res.kind = "return" THEN Append(resolved, res.data.payload.user)
    ELSE resolved

\* the body of the loop after the lookup: the user of an ok response is
\* kept, a failure is caught and the user skipped
UsersAfter(resolved, res) ==
    IF res.kind = "return" /\ res.data.ok /\ Truthy(res.data.payload.user)
    THEN Append(resolved, res.data.payload.user)
    ELSE resolved

\* the identifiers getUsersInfo was called with: by the caller of the
\* client, or by the list-unreads command
LookupIds ==
    IF op.name = "getUsersInfo" THEN op.args.userIds ELSE local.userIds

\* one round of the loop: the lookup of one user is issued
GetUsersInfoLookup ==
    /\ pc = "users"
    /\ idx <= Len(LookupIds)
    /\ inflight' = inflight \cup {Pending("lookup", idx)}
    /\ pc' = Awaiting("lookup")
    /\ UNCHANGED <<config, webClient, mutated, op, calls, wire, result, idx,
                   users, fileEntries, transfers, progress, local, procs>>

\* the lookup is settled: the user is kept or skipped, and the loop goes on
GetUsersInfoAnswer ==
    /\ pc = "userswait"
    /\ LET userId == LookupIds[idx]
       IN  \E env \in SomeOutcomes(UserPayloads(userId)) :
             LET params == GetUserInfoParams(userId)
                 r == Request("users.info", params, env)
             IN  /\ Answers(env, r)
                 /\ calls' = Append(calls, CallRecord("users.info", params, r))
                 /\ wire' = wire \o r.net
                 /\ users' = UsersAfter(users, r.res)
    /\ inflight' = inflight \ {Pending("lookup", idx)}
    /\ idx' = idx + 1
    /\ pc' = "users"
    /\ UNCHANGED <<config, webClient, mutated, op, result, fileEntries,
                   transfers, progress, local, procs>>

\* return { ok: true, users }: to the caller of the client, or to the
\* list-unreads command, which goes on to its output
GetUsersInfoReturn ==
    /\ pc = "users"
    /\ idx > Len(LookupIds)
    /\ IF op.name = "getUsersInfo"
       THEN /\ result' = Return([ok |-> TRUE, error |-> Undefined,
                                 payload |-> [users |-> users]])
            /\ pc' = "done"
       ELSE /\ pc' = "output"
            /\ UNCHANGED result
    /\ UNCHANGED <<config, webClient, mutated, op, calls, wire, idx, users,
                   fileEntries, transfers, progress, local, inflight,
                   procs>>

\* the files of the caller's disk: the path split at "/", and the byte length
Files ==
    {[path |-> <<"docs", "a.txt">>, length |-> 12],
     [path |-> <<"tmp", "">>, length |-> 0]}

UploadOptions ==
    {Drop(f) : f \in [channel_id : {Absent, Str(<<"C1">>)},
                      thread_ts : {Absent},
                      titles : {Absent, Arr(<<>>), Arr(<<Str(<<"t1">>)>>),
                                Arr(<<Str(<<>>), Str(<<"t2">>)>>)},
                      initial_comment : {Absent},
                      onProgress : {Absent, Fn}]}
    \cup {[thread_ts |-> Str(<<"1700.1">>), initial_comment |-> Str(<<"hi">>)]}

\* filePath.split('/').pop() || 'file'
FileName(path) ==
    IF path[Len(path)] # "" THEN path[Len(path)] ELSE "file"

\* options.onProgress(step) without the `?.`: the step is reported whether
\* or not there is a sink
Report_Unconditional(options, step) == Append(progress, step)

\* options.onProgress?.(step)
Report(options, step) ==
    IF Get(options, "onProgress") # Undefined THEN Append(progress, step)
    ELSE progress

\* options.titles?.[i], i counted from 1
TitleAt(options, i) ==
    LET titles == Get(options, "titles")
    IN  IF titles.t = "array" /\ i <= Len(titles.s) THEN titles.s[i]
        ELSE Undefined

\* uploadFiles(filePaths, options): up to the loop
UploadFilesStart ==
    /\ pc = "ready"
    /\ \E paths \in SeqsUpTo(Files, MaxFiles), o \in UploadOptions :
         op' = [name |-> "uploadFiles", args |-> [filePaths |-> paths, options |-> o]]
    /\ pc' = "slot"
    /\ idx' = 1
    /\ fileEntries' = <<>>
    /\ UNCHANGED <<config, webClient, mutated, calls, wire, result, users,
                   transfers, progress, local, inflight, procs>>

\* the loop condition: i < filePaths.length, i counted from 1 here
InLoop_OffByOne(i, filePaths) == i < Len(filePaths)

InLoop(i, filePaths) == i <= Len(filePaths)

\* the file is read, the sink is told, and the upload slot is asked for
UploadSlot ==
    /\ pc = "slot"
    /\ InLoop(idx, op.args.filePaths)
    /\ LET file == op.args.filePaths[idx]
           filename == FileName(file.path)
           step == <<"Uploading file ">> \o Digits(idx) \o <<"/">>
                   \o Digits(Len(op.args.filePaths)) \o <<": ", filename>>
       IN  \/ \* Bun.file(filePath).arrayBuffer() fails
              /\ result' = Throw(MkError(<<"ENOENT">>))
              /\ pc' = "done"
              /\ UNCHANGED <<progress, inflight, local>>
           \/ /\ progress' = Report(op.args.options, step)
              /\ inflight' = inflight \cup {Pending("slot", idx)}
              /\ local' = [filename |-> filename, length |-> file.length]
              /\ pc' = Awaiting("slot")
              /\ UNCHANGED result
    /\ UNCHANGED <<config, webClient, mutated, op, calls, wire, idx, users,
                   fileEntries, transfers, procs>>

\* the slot request without its failure reaching the loop: the loop goes on
\* with whatever came back
AfterSlot_Swallow(res, filename, length) ==
    [pc |-> "transfer", result |-> NoResult,
     local |-> [upload_url |-> IF res.kind = "throw" THEN Undefined
                               ELSE res.data.payload.upload_url,
                file_id |-> IF res.kind = "throw" THEN Undefined
                            ELSE res.data.payload.file_id,
                filename |-> filename, length |-> length]]

\* after `await this.getUploadUrl(...)`: a failure leaves uploadFiles, else
\* upload_url and file_id are taken from the response
AfterSlot(res, filename, length) ==
    IF res.kind = "throw"
    THEN [pc |-> "done", result |-> res,
          local |-> [filename |-> filename, length |-> length]]
    ELSE [pc |-> "transfer", result |-> NoResult,
          local |-> [upload_url |-> res.data.payload.upload_url,
                     file_id |-> res.data.payload.file_id,
                     filename |-> filename, length |-> length]]

\* the slot request is settled
UploadSlotAnswer ==
    /\ pc = "slotwait"
    /\ LET params == GetUploadUrlParams(Str(<<local.filename>>), Num(local.length))
       IN  \E env \in SomeOutcomes(SlotPayloads) :
             LET r == Request("files.getUploadURLExternal", params, env)
                 next == AfterSlot(r.res, local.filename, local.length)
             IN  /\ Answers(env, r)
                 /\ calls' = Append(calls,
                       CallRecord("files.getUploadURLExternal", params, r))
                 /\ wire' = wire \o r.net
                 /\ pc' = next.pc
                 /\ result' = next.result
                 /\ local' = next.local
    /\ inflight' = inflight \ {Pending("slot", idx)}
    /\ UNCHANGED <<config, webClient, mutated, op, idx, users, fileEntries,
                   transfers, progress, procs>>

\* what the upload destination answers: fetch throws, or a status
TransferReplies ==
    {[kind |-> "throw", err |-> MkError(<<"socket hang up">>), status |-> 0]}
    \cup {[kind |-> "http", err |-> NoErr, status |-> st] : st \in {200, 300}}

\* uploadToUrl without its test of response.ok
UploadToUrl_NoStatusTest(uploadUrl, length, filename, reply) ==
    [sent |-> [url |-> uploadUrl, method |-> "POST", headers |-> {},
               part |-> "file", filename |-> filename, bytes |-> length,
               reply |-> reply],
     res |-> IF reply.kind = "throw" THEN Throw(reply.err) ELSE Return(NoData)]

\* uploadToUrl sent like a request of the browser transport: with the
\* cookie, and its failure normalized
UploadToUrl_ViaTransport(uploadUrl, length, filename, reply) ==
    [sent |-> [url |-> uploadUrl, method |-> "POST", headers |-> {"Cookie"},
               part |-> "file", filename |-> filename, bytes |-> length,
               reply |-> reply],
     res |-> IF reply.kind = "throw" THEN Throw(NormalizeBrowser(reply.err))
             ELSE IF ~ResponseOk(reply.status)
             THEN Throw(MkError(Wrap(<<"HTTP error! status: ">>
                                     \o Digits(reply.status))))
             ELSE Return(NoData)]

\* uploadToUrl: a POST of the bytes as multipart form data, with no headers
UploadToUrl(uploadUrl, length, filename, reply) ==
    [sent |-> [url |-> uploadUrl, method |-> "POST", headers |-> {},
               part |-> "file", filename |-> filename, bytes |-> length,
               reply |-> reply],
     res |-> IF reply.kind = "throw" THEN Throw(reply.err)
             ELSE IF ~ResponseOk(reply.status)
             THEN Throw(MkError(<<"File upload failed: HTTP ">> \o Digits(reply.status)))
             ELSE Return(NoData)]

\* the entry with its title assigned without the test of line 322
FileEntry_AlwaysTitle(fileId, options, i) ==
    Put([id |-> fileId], "title", TitleAt(options, i))

\* the entry of file i: its identifier, and its title when there is one
FileEntry(fileId, options, i) ==
    PutIfTruthy([id |-> fileId], "title", TitleAt(options, i))

\* the bytes are sent to the slot
UploadTransfer ==
    /\ pc = "transfer"
    /\ inflight' = inflight \cup {Pending("transfer", idx)}
    /\ pc' = Awaiting("transfer")
    /\ UNCHANGED <<config, webClient, mutated, op, calls, wire, result, idx,
                   users, fileEntries, transfers, progress, local, procs>>

\* the transfer is settled: a failure leaves uploadFiles, else the entry of
\* the file is kept and the loop goes on
UploadTransferAnswer ==
    /\ pc = "transferwait"
    /\ \E reply \in TransferReplies :
         LET u == UploadToUrl(local.upload_url, local.length, local.filename, reply)
         IN  /\ transfers' = Append(transfers, u.sent)
             /\ IF u.res.kind = "throw"
                THEN /\ result' = u.res
                     /\ pc' = "done"
                     /\ UNCHANGED <<fileEntries, idx>>
                ELSE /\ fileEntries' = Append(fileEntries,
                           FileEntry(local.file_id, op.args.options, idx))
                     /\ idx' = idx + 1
                     /\ pc' = "slot"
                     /\ UNCHANGED result
    /\ inflight' = inflight \ {Pending("transfer", idx)}
    /\ UNCHANGED <<config, webClient, mutated, op, calls, wire, users,
                   progress, local, procs>>

\* after the loop: the sink is told and completeUpload is called
UploadFinalize ==
    /\ pc = "slot"
    /\ ~InLoop(idx, op.args.filePaths)
    /\ LET o == op.args.options
           params == CompleteUploadParams(fileEntries,
                        [channel_id |-> Get(o, "channel_id"),
                         thread_ts |-> Get(o, "thread_ts"),
                         initial_comment |-> Get(o, "initial_comment")])
       IN  \E env \in SomeOutcomes(NoPayload) :
             LET r == Request("files.completeUploadExternal", params, env)
             IN  /\ Answers(env, r)
                 /\ progress' = Report(o, <<"Finalizing upload...">>)
                 /\ calls' = Append(calls,
                       CallRecord("files.completeUploadExternal", params, r))
                 /\ wire' = wire \o r.net
                 /\ result' = r.res
    /\ pc' = "done"
    /\ UNCHANGED <<config, webClient, mutated, op, idx, users, fileEntries,
                   transfers, local, inflight, procs>>

\* --timestamp of the mark-read command: not given, or some text
Timestamps == {Undefined, Str(<<>>), Str(<<"1700.9">>)}

\* mark-read taking the ts of the last message returned, not of the first
AfterHistory_LastMessage(res) ==
    IF res.kind = "throw" THEN [pc |-> "done", result |-> res, ts |-> Undefined]
    ELSE IF Len(res.data.payload.messages) = 0
    THEN [pc |-> "done", result |-> Return(NoData), ts |-> Undefined]
    ELSE [pc |-> "mark", result |-> NoResult,
          ts |-> res.data.payload.messages[Len(res.data.payload.messages)].ts]

\* mark-read without its test for an empty history: messages[0] of an empty
\* list is undefined, and reading .ts of it fails the command
AfterHistory_NoEmptyTest(res) ==
    IF res.kind = "throw" THEN [pc |-> "done", result |-> res, ts |-> Undefined]
    ELSE [pc |-> "mark", result |-> NoResult,
          ts |-> IF Len(res.data.payload.messages) = 0 THEN Undefined
                 ELSE res.data.payload.messages[1].ts]

\* mark-read after the history call: a failure ends the command, no message
\* ends it with nothing to mark, else the first message's ts is taken
AfterHistory(res) ==
    IF res.kind = "throw" THEN [pc |-> "done", result |-> res, ts |-> Undefined]
    ELSE IF Len(res.data.payload.messages) = 0
    THEN [pc |-> "done", result |-> Return(NoData), ts |-> Undefined]
    ELSE [pc |-> "mark", result |-> NoResult, ts |-> res.data.payload.messages[1].ts]

\* mark-read: without a timestamp the latest message is fetched first
MarkReadFetch ==
    /\ pc = "ready"
    /\ \E channelId \in OneText, timestamp \in Timestamps :
         /\ op' = [name |-> "mark-read",
                   args |-> [channelId |-> channelId, timestamp |-> timestamp]]
         /\ IF ~Truthy(timestamp)
            THEN \E env \in SomeOutcomes(MessagePayloads) :
                   LET params == GetConversationHistoryParams(channelId,
                                                              [limit |-> Num(1)])
                       r == Request("conversations.history", params, env)
                       next == AfterHistory(r.res)
                   IN  /\ Answers(env, r)
                       /\ calls' = <<CallRecord("conversations.history", params, r)>>
                       /\ wire' = r.net
                       /\ pc' = next.pc
                       /\ result' = next.result
                       /\ local' = [ts |-> next.ts]
            ELSE /\ local' = [ts |-> timestamp]
                 /\ pc' = "mark"
                 /\ UNCHANGED <<calls, wire, result>>
    /\ UNCHANGED <<config, webClient, mutated, idx, users, fileEntries,
                   transfers, progress, inflight, procs>>

\* mark-read: conversations.mark with the timestamp found
MarkReadMark ==
    /\ pc = "mark"
    /\ LET params == MarkConversationReadParams(op.args.channelId, local.ts)
       IN  \E env \in SomeOutcomes(NoPayload) :
             LET r == Request("conversations.mark", params, env)
             IN  /\ Answers(env, r)
                 /\ calls' = Append(calls, CallRecord("conversations.mark", params, r))
                 /\ wire' = wire \o r.net
                 /\ result' = r.res
    /\ pc' = "done"
    /\ UNCHANGED <<config, webClient, mutated, op, idx, users, fileEntries,
                   transfers, progress, local, inflight, procs>>

----------------------------------------------------------------------------
(* The list-unreads command *)

\* an entry of client.counts
CountEntry(id, mentions, unread) ==
    [id |-> Str(<<id>>), mention_count |-> mentions, has_unreads |-> unread]

\* conversations matching `ch.has_unreads` of a list that may be missing
\* (`counts.channels || []`)
Unread(list) ==
    IF list.t = "undefined" THEN <<>>
    ELSE SelectSeq(list.s, LAMBDA e : e.has_unreads)

\* what client.counts answers: channels, mpims and ims, at most MaxUnreads
\* of them unread
CountsPayloads ==
    {c \in [channels : {Undefined,
                        Arr(<<CountEntry("C1", 0, TRUE)>>),
                        Arr(<<CountEntry("C3", 5, FALSE), CountEntry("C1", 0, TRUE),
                              CountEntry("C2", 2, TRUE)>>)},
            mpims : {Arr(<<>>), Arr(<<CountEntry("G1", 2, TRUE)>>)},
            ims : {Undefined, Arr(<<CountEntry("D1", 2, TRUE)>>)}] :
        Len(Unread(c.channels)) + Len(Unread(c.mpims)) + Len(Unread(c.ims))
            <= MaxUnreads}

RECURSIVE InsertByMentions(_, _)
\* e put behind every entry that has at least as many mentions
InsertByMentions(sorted, e) ==
    IF sorted = <<>> THEN <<e>>
    ELSE IF Head(sorted).mention_count >= e.mention_count
    THEN <<Head(sorted)>> \o InsertByMentions(Tail(sorted), e)
    ELSE <<e>> \o sorted

RECURSIVE SortByMentions(_)
\* unreadEntries.sort((a, b) => b.mention_count - a.mention_count): most
\* mentions first, entries with as many mentions left in their order
SortByMentions(entries) ==
    IF entries = <<>> THEN <<>>
    ELSE InsertByMentions(SortByMentions(SubSeq(entries, 1, Len(entries) - 1)),
                          entries[Len(entries)])

\* the unread entries of channels, mpims and ims, sorted
UnreadEntries(counts) ==
    SortByMentions(Unread(counts.channels) \o Unread(counts.mpims)
                   \o Unread(counts.ims))

\* a SlackChannel: a direct message names its user
Channel(id) ==
    IF id = Str(<<"D1">>)
    THEN [id |-> id, is_im |-> TRUE, user |-> Str(<<"U1">>)]
    ELSE [id |-> id, is_im |-> FALSE, user |-> Undefined]

\* what conversations.info holds for an entry: the channel, or none
ChannelPayloads(entry) == {[channel |-> Channel(entry.id)], [channel |-> Undefined]}

\* the answers to a channel lookup: a failure, or a body with ok = true
InfoOutcomes(payloads) ==
    {o \in SomeOutcomes(payloads) :
        o.kind = "http" => (o.status = 200 /\ o.data.ok)}

\* the callback of the map without its fallbacks: the channel of the
\* response, whatever it is
ResolvedChannel_NoPlaceholder(entry, res) ==
    IF res.kind = "throw" THEN Undefined ELSE res.data.payload.channel

\* the callback of the map: info.channel ?? { id: entry.id }, and
\* { id: entry.id } when the lookup fails
ResolvedChannel(entry, res) ==
    IF res.kind = "throw" THEN [id |-> entry.id]
    ELSE IF res.data.payload.channel = Undefined THEN [id |-> entry.id]
    ELSE res.data.payload.channel

RECURSIVE DmUsers(_)
\* the users of the direct messages among the channels, each once, in the
\* order they are first met (a Set filled by forEach)
DmUsers(channels) ==
    IF channels = <<>> THEN <<>>
    ELSE LET before == DmUsers(SubSeq(channels, 1, Len(channels) - 1))
             ch == channels[Len(channels)]
         IN  IF /\ "is_im" \in DOMAIN ch
                /\ ch.is_im
                /\ Truthy(ch.user)
                /\ \A j \in DOMAIN before : before[j] # ch.user
             THEN Append(before, ch.user)
             ELSE before

\* client.counts is fetched, the unread entries are collected and sorted,
\* and the lookups of all of them are issued by the map of Promise.all
ListUnreadsCounts ==
    /\ pc = "ready"
    /\ op' = [name |-> "list-unreads", args |-> EmptyObj]
    /\ \E env \in SomeOutcomes(CountsPayloads) :
         LET r == Request("client.counts", EmptyObj, env)
         IN  /\ Answers(env, r)
             /\ calls' = <<CallRecord("client.counts", EmptyObj, r)>>
             /\ wire' = r.net
             /\ IF r.res.kind = "throw"
                THEN /\ result' = r.res
                     /\ pc' = "done"
                     /\ UNCHANGED <<local, inflight>>
                ELSE LET entries == UnreadEntries(r.res.data.payload)
                     IN  /\ local' = [entries |-> entries, resolved |-> <<>>,
                                      userIds |-> <<>>]
                         /\ inflight' = {Pending("info", i) : i \in DOMAIN entries}
                         /\ pc' = "resolve"
                         /\ UNCHANGED result
    /\ UNCHANGED <<config, webClient, mutated, idx, users, fileEntries,
                   transfers, progress, procs>>

\* one of the lookups under way is settled, in whatever order they are
ListUnreadsAnswer ==
    /\ pc = "resolve"
    /\ \E c \in inflight :
         LET entry == local.entries[c.file]
             params == GetConversationInfoParams(entry.id)
         IN  \E env \in InfoOutcomes(ChannelPayloads(entry)) :
               LET r == Request("conversations.info", params, env)
               IN  /\ Answers(env, r)
                   /\ calls' = Append(calls,
                         CallRecord("conversations.info", params, r))
                   /\ wire' = wire \o r.net
                   /\ local' = [local EXCEPT
                         !.resolved = Put(@, c.file, ResolvedChannel(entry, r.res))]
                   /\ inflight' = inflight \ {c}
    /\ UNCHANGED <<config, webClient, mutated, pc, op, result, idx, users,
                   fileEntries, transfers, progress, procs>>

\* Promise.all is through: the users of the direct messages are looked up
\* with getUsersInfo when there are any
ListUnreadsJoin ==
    /\ pc = "resolve"
    /\ inflight = {}
    /\ LET ids == DmUsers(local.resolved)
       IN  /\ local' = [local EXCEPT !.userIds = ids]
           /\ pc' = IF ids # <<>> THEN "users" ELSE "output"
    /\ idx' = 1
    /\ users' = <<>>
    /\ UNCHANGED <<config, webClient, mutated, op, calls, wire, result,
                   fileEntries, transfers, progress, inflight, procs>>

\* the conversations are printed and the command succeeds
ListUnreadsOutput ==
    /\ pc = "output"
    /\ result' = Return([ok |-> TRUE, error |-> Undefined,
                         payload |-> [unread_count |-> Len(local.resolved),
                                      channels |-> local.resolved]])
    /\ pc' = "done"
    /\ UNCHANGED <<config, webClient, mutated, op, calls, wire, idx, users,
                   fileEntries, transfers, progress, local, inflight,
                   procs>>

----------------------------------------------------------------------------
(* Operations run concurrently on one client *)

\* the variables of the single caller, which concurrent call sites leave alone
solo == <<config, webClient, mutated, pc, op, calls, wire, result, idx, users,
          fileEntries, transfers, progress, inflight, local>>

\* the accumulator kept on the instance, one for all calls
Frame_Shared(p) == 1

\* `const users = []` and `const fileEntries = []` are locals: every call of
\* getUsersInfo or uploadFiles has its own
Frame(p) == p

\* the answers to a call of a concurrent operation: a failure, or a body
\* with ok = true
PairOutcomes(payloads) == InfoOutcomes(payloads)

\* what call site p passes, and what the server hands out for its file i
PairUserId(p) == Str(<<"U", DigitAtom(p)>>)
PairFile(p) == [path |-> <<"docs", DigitAtom(p)>>, length |-> 10 + p]
PairSlotPayload(p, i) ==
    [upload_url |-> Str(<<"https://files/", DigitAtom(p), DigitAtom(i)>>),
     file_id |-> Str(<<"F", DigitAtom(p), DigitAtom(i)>>)]

PairGetUsersInfoStart ==
    /\ \E p \in Procs :
         /\ procs[p].pc = "idle"
         /\ \E ids \in SeqsUpTo({PairUserId(p)}, MaxConcurrent) :
              procs' = [procs EXCEPT
                  ![p].op = [name |-> "getUsersInfo", args |-> [userIds |-> ids]],
                  ![p].pc = "users",
                  ![p].idx = 1,
                  ![Frame(p)].users = <<>>]
    /\ UNCHANGED solo

PairGetUsersInfoLookup ==
    /\ \E p \in Procs :
         /\ procs[p].pc = "users"
         /\ procs[p].idx <= Len(procs[p].op.args.userIds)
         /\ procs' = [procs EXCEPT ![p].pc = Awaiting("lookup")]
    /\ UNCHANGED solo

PairGetUsersInfoAnswer ==
    /\ \E p \in Procs :
         /\ procs[p].pc = "userswait"
         /\ LET userId == procs[p].op.args.userIds[procs[p].idx]
                params == GetUserInfoParams(userId)
            IN  \E env \in PairOutcomes(UserPayloads(userId)) :
                  LET r == Request("users.info", params, env)
                  IN  /\ Answers(env, r)
                      /\ procs' = [procs EXCEPT
                            ![p].calls = Append(@, CallRecord("users.info", params, r)),
                            ![p].idx = @ + 1,
                            ![p].pc = "users",
                            ![Frame(p)].users = UsersAfter(procs[Frame(p)].users, r.res)]
    /\ UNCHANGED solo

PairGetUsersInfoReturn ==
    /\ \E p \in Procs :
         /\ procs[p].pc = "users"
         /\ procs[p].idx > Len(procs[p].op.args.userIds)
         /\ procs' = [procs EXCEPT
               ![p].result = Return([ok |-> TRUE, error |-> Undefined,
                                     payload |-> [users |-> procs[Frame(p)].users]]),
               ![p].pc = "done"]
    /\ UNCHANGED solo

PairUploadFilesStart ==
    /\ \E p \in Procs :
         /\ procs[p].pc = "idle"
         /\ \E paths \in SeqsUpTo({PairFile(p)}, MaxConcurrent) :
              procs' = [procs EXCEPT
                  ![p].op = [name |-> "uploadFiles",
                             args |-> [filePaths |-> paths,
                                       options |-> [channel_id |-> Str(<<"C1">>)]]],
                  ![p].pc = "slot",
                  ![p].idx = 1,
                  ![Frame(p)].fileEntries = <<>>]
    /\ UNCHANGED solo

PairUploadSlot ==
    /\ \E p \in Procs :
         /\ procs[p].pc = "slot"
         /\ InLoop(procs[p].idx, procs[p].op.args.filePaths)
         /\ LET file == procs[p].op.args.filePaths[procs[p].idx]
            IN  \/ procs' = [procs EXCEPT
                       ![p].result = Throw(MkError(<<"ENOENT">>)),
                       ![p].pc = "done"]
                \/ procs' = [procs EXCEPT
                       ![p].local = [filename |-> FileName(file.path),
                                     length |-> file.length],
                       ![p].pc = Awaiting("slot")]
    /\ UNCHANGED solo

PairUploadSlotAnswer ==
    /\ \E p \in Procs :
         /\ procs[p].pc = "slotwait"
         /\ LET l == procs[p].local
                params == GetUploadUrlParams(Str(<<l.filename>>), Num(l.length))
            IN  \E env \in PairOutcomes({PairSlotPayload(p, procs[p].idx)}) :
                  LET r == Request("files.getUploadURLExternal", params, env)
                      next == AfterSlot(r.res, l.filename, l.length)
                  IN  /\ Answers(env, r)
                      /\ procs' = [procs EXCEPT
                            ![p].calls = Append(@,
                                CallRecord("files.getUploadURLExternal", params, r)),
                            ![p].pc = next.pc,
                            ![p].result = next.result,
                            ![p].local = next.local]
    /\ UNCHANGED solo

PairUploadTransfer ==
    /\ \E p \in Procs :
         /\ procs[p].pc = "transfer"
         /\ procs' = [procs EXCEPT ![p].pc = Awaiting("transfer")]
    /\ UNCHANGED solo

PairUploadTransferAnswer ==
    /\ \E p \in Procs :
         /\ procs[p].pc = "transferwait"
         /\ \E reply \in TransferReplies :
              LET l == procs[p].local
                  u == UploadToUrl(l.upload_url, l.length, l.filename, reply)
              IN  IF u.res.kind = "throw"
                  THEN procs' = [procs EXCEPT
                          ![p].transfers = Append(@, u.sent),
                          ![p].result = u.res,
                          ![p].pc = "done"]
                  ELSE procs' = [procs EXCEPT
                          ![p].transfers = Append(@, u.sent),
                          ![p].idx = @ + 1,
                          ![p].pc = "slot",
                          ![Frame(p)].fileEntries =
                              Append(procs[Frame(p)].fileEntries,
                                     FileEntry(l.file_id, procs[p].op.args.options,
                                               procs[p].idx))]
    /\ UNCHANGED solo

PairUploadFinalize ==
    /\ \E p \in Procs :
         /\ procs[p].pc = "slot"
         /\ ~InLoop(procs[p].idx, procs[p].op.args.filePaths)
         /\ LET o == procs[p].op.args.options
                params == CompleteUploadParams(procs[Frame(p)].fileEntries,
                             [channel_id |-> Get(o, "channel_id"),
                              thread_ts |-> Get(o, "thread_ts"),
                              initial_comment |-> Get(o, "initial_comment")])
            IN  \E env \in PairOutcomes(NoPayload) :
                  LET r == Request("files.completeUploadExternal", params, env)
                  IN  /\ Answers(env, r)
                      /\ procs' = [procs EXCEPT
                            ![p].calls = Append(@,
                                CallRecord("files.completeUploadExternal", params, r)),
                            ![p].result = r.res,
                            ![p].pc = "done"]
    /\ UNCHANGED solo

NextPair ==
    \/ PairGetUsersInfoStart
    \/ PairGetUsersInfoLookup
    \/ PairGetUsersInfoAnswer
    \/ PairGetUsersInfoReturn
    \/ PairUploadFilesStart
    \/ PairUploadSlot
    \/ PairUploadSlotAnswer
    \/ PairUploadTransfer
    \/ PairUploadTransferAnswer
    \/ PairUploadFinalize
    \/ MutateConfig

SpecPair == Init /\ [][NextPair]_vars

Next ==
    \/ NewClient
    \/ MutateConfig
    \/ SingleCall
    \/ GetUsersInfoStart
    \/ GetUsersInfoLookup
    \/ GetUsersInfoAnswer
    \/ GetUsersInfoReturn
    \/ UploadFilesStart
    \/ UploadSlot
    \/ UploadSlotAnswer
    \/ UploadTransfer
    \/ UploadTransferAnswer
    \/ UploadFinalize
    \/ MarkReadFetch
    \/ MarkReadMark
    \/ ListUnreadsCounts
    \/ ListUnreadsAnswer
    \/ ListUnreadsJoin
    \/ ListUnreadsOutput

Spec == Init /\ [][Next]_vars

----------------------------------------------------------------------------
(* The claims *)

\* the calls of the operation under way that reached the network
SentCalls == {i \in DOMAIN calls : calls[i].sent # <<>>}
SentBy(transport) ==
    {i \in SentCalls : calls[i].sent[1].transport = transport}

\* C1: a call that reaches the browser transport with a parameter whose value
\* is undefined sends a form body that does not hold that parameter's key.
C1_UndefinedOmitted ==
    \A i \in SentBy("browser") :
        \A k \in DOMAIN calls[i].params :
            calls[i].params[k] = Undefined => k \notin DOMAIN calls[i].sent[1].body

\* the failure raised inside a transport, before the catch normalizes it
Underlying(i) ==
    IF calls[i].sent[1].transport = "standard"
    THEN (IF calls[i].sent[1].reply.kind = "throw"
          THEN Throw(calls[i].sent[1].reply.err) ELSE NoResult)
    ELSE BrowserTry(calls[i].sent[1].reply).res

AlreadyNormalized(i) ==
    /\ Underlying(i).kind = "throw"
    /\ StartsWithPrefix(ErrMessage(Underlying(i).err))

\* C2 as stated: on either transport, a failure whose message already starts
\* with "Slack API error:" is raised again with exactly the same message.
C2_Idempotent ==
    \A i \in SentCalls :
        AlreadyNormalized(i) =>
            /\ calls[i].res.kind = "throw"
            /\ calls[i].res.err.message = ErrMessage(Underlying(i).err)

\* C2 amended: on the browser transport, a failure that is an Error and whose
\* message already starts with "Slack API error:" is raised again as it is,
\* and normalizing a failure the browser transport raised changes nothing.
C2_BrowserIdempotent ==
    \A i \in SentBy("browser") :
        /\ (AlreadyNormalized(i) /\ Underlying(i).err.isError) =>
              calls[i].res = Throw(Underlying(i).err)
        /\ calls[i].res.kind = "throw" =>
              NormalizeBrowser(calls[i].res.err) = calls[i].res.err

C2_Witness ==
    \E i \in SentBy("browser") :
        /\ AlreadyNormalized(i)
        /\ Underlying(i).err.isError
        /\ calls[i].res.err.message = <<Prefix, " ", "ratelimited">>

\* getUsersInfo: the lookups made so far, by how they ended
Raised == {i \in DOMAIN calls : calls[i].res.kind = "throw"}
Userless ==
    {i \in DOMAIN calls :
        /\ calls[i].res.kind = "return"
        /\ ~(calls[i].res.data.ok /\ Truthy(calls[i].res.data.payload.user))}

UsersDone == pc = "done" /\ op.name = "getUsersInfo"

\* C3 as stated: getUsersInfo over N identifiers of which K lookups fail
\* returns ok = true with exactly N - K users, and never raises.
C3_ExactlyNMinusK ==
    /\ op.name = "getUsersInfo" => result.kind # "throw"
    /\ UsersDone =>
         /\ result.kind = "return"
         /\ result.data.ok
         /\ Len(result.data.payload.users)
              = Len(op.args.userIds) - Cardinality(Raised)

\* C3 amended: getUsersInfo over N identifiers of which K lookups raise and J
\* return a response without a user returns ok = true with exactly N - K - J
\* users, and never raises.
C3_SkipsFailedAndUserless ==
    /\ op.name = "getUsersInfo" => result.kind # "throw"
    /\ UsersDone =>
         /\ result.kind = "return"
         /\ result.data.ok
         /\ Len(calls) = Len(op.args.userIds)
         /\ Len(result.data.payload.users)
              = Len(op.args.userIds) - Cardinality(Raised) - Cardinality(Userless)
         /\ \A j \in DOMAIN result.data.payload.users :
              result.data.payload.users[j] # Undefined

C3_Witness ==
    /\ UsersDone
    /\ Len(op.args.userIds) = 3
    /\ Raised = {2}
    /\ Userless = {}
    /\ Len(result.data.payload.users) = 2

\* uploadFiles: the transfers that failed
FailedTransfer(t) == t.reply.kind = "throw" \/ ~ResponseOk(t.reply.status)
FailedTransfers == {i \in DOMAIN transfers : FailedTransfer(transfers[i])}
FinalizeCalls ==
    {i \in DOMAIN calls : calls[i].method = "files.completeUploadExternal"}

\* C4: in uploadFiles, once the transfer of a file has failed, no finalize
\* call is made and the caller sees exactly one failure: the operation has
\* ended by raising, and nothing else failed.
C4_TransferFailureAborts ==
    (op.name = "uploadFiles" /\ FailedTransfers # {}) =>
        /\ FinalizeCalls = {}
        /\ pc = "done"
        /\ result.kind = "throw"
        /\ FailedTransfers = {Len(transfers)}
        /\ Raised = {}

C4_Witness ==
    /\ op.name = "uploadFiles"
    /\ Len(op.args.filePaths) = 2
    /\ FailedTransfers = {1}
    /\ pc = "done"
    /\ result.err.message = <<"File upload failed: HTTP ", "3", "0", "0">>

MarkCalls == {i \in DOMAIN calls : calls[i].method = "conversations.mark"}

\* mark-read was run without a timestamp and the history held no message
EmptyHistory ==
    /\ op.name = "mark-read"
    /\ ~Truthy(op.args.timestamp)
    /\ calls # <<>>
    /\ calls[1].res.kind = "return"
    /\ calls[1].res.data.payload.messages = <<>>

\* C5: mark-read without a timestamp on a conversation with no message ends
\* successfully without a conversations.mark call, and no conversations.mark
\* call is ever made with an undefined timestamp.
C5_NoMarkWithoutTimestamp ==
    /\ EmptyHistory =>
         /\ pc = "done"
         /\ result.kind = "return"
         /\ MarkCalls = {}
    /\ pc = "mark" => local.ts # Undefined
    /\ \A i \in MarkCalls :
         /\ "ts" \in DOMAIN calls[i].params
         /\ calls[i].params["ts"] # Undefined

C5_Witness ==
    /\ EmptyHistory
    /\ pc = "done"
    /\ calls[1].sent # <<>>
    /\ calls[1].params["limit"] = Num(1)

Paginated ==
    {"listConversations", "getConversationHistory", "getConversationReplies"}

\* C6: a paginated operation called with cursor = "" or without a cursor
\* hands request() a parameter mapping with no cursor key.
C6_EmptyCursorOmitted ==
    (pc = "done" /\ op.name \in Paginated) =>
        (("cursor" \notin DOMAIN op.args.options
          \/ op.args.options["cursor"] = Str(<<>>))
            => "cursor" \notin DOMAIN calls[1].params)

\* the facade operations of one call that take required parameters, and the
\* key each required parameter is sent under
WithRequired ==
    {"markConversationRead", "getConversationInfo", "getConversationHistory",
     "getConversationReplies", "postMessage", "getUserInfo", "openConversation",
     "addReaction", "removeReaction", "searchAll", "getUploadUrl",
     "completeUpload"}
RequiredArgs == DOMAIN op.args \ {"options"}
KeyOf(arg) == IF op.name = "getUserInfo" THEN "user" ELSE arg
SameValue(v, w) == v.t = w.t /\ v = w

\* C7 as stated: every required parameter the caller supplies is in the
\* mapping handed to request() with exactly the value supplied, type included.
C7_RequiredVerbatim ==
    (pc = "done" /\ op.name \in WithRequired) =>
        \A a \in RequiredArgs :
            /\ KeyOf(a) \in DOMAIN calls[1].params
            /\ SameValue(calls[1].params[KeyOf(a)], op.args[a])

Converted ==
    {<<"getUploadUrl", "length">>, <<"completeUpload", "files">>}

\* C7 amended: every required parameter the caller supplies is in the mapping
\* handed to request() with exactly the value supplied, except the length of
\* getUploadUrl, sent as its decimal text, and the files of completeUpload,
\* sent as their JSON text.
C7_RequiredVerbatimOrText ==
    (pc = "done" /\ op.name \in WithRequired) =>
        \A a \in RequiredArgs :
            /\ KeyOf(a) \in DOMAIN calls[1].params
            /\ <<op.name, a>> \notin Converted =>
                 SameValue(calls[1].params[KeyOf(a)], op.args[a])
            /\ <<op.name, a>> = <<"getUploadUrl", "length">> =>
                 calls[1].params[a] = Str(Digits(op.args[a].n))
            /\ <<op.name, a>> = <<"completeUpload", "files">> =>
                 calls[1].params[a] = Str(JsonStringify(op.args[a].s))

C7_Witness ==
    /\ pc = "done"
    /\ op.name = "getUploadUrl"
    /\ op.args["length"] = Num(12)
    /\ calls[1].params["length"] = Str(<<"1", "2">>)
    /\ calls[1].params["filename"] = op.args["filename"]

\* C8: every call is executed by the transport the constructor selected,
\* whatever has happened to the configuration object since.
C8_TransportFixed ==
    \A i \in SentCalls :
        calls[i].sent[1].transport = (IF webClient THEN "standard" ELSE "browser")

\* C9: on the standard transport a failure of the library call is raised as
\* an Error whose message is "Slack API error: " and the failure's message.
C9_StandardNormalized ==
    \A i \in SentBy("standard") :
        LET reply == calls[i].sent[1].reply
        IN  /\ reply.kind = "throw" =>
                 calls[i].res = Throw(MkError(<<Prefix, " ">> \o reply.err.message))
            /\ reply.kind # "throw" => calls[i].res.kind = "return"

C9_Witness ==
    \E i \in SentBy("standard") :
        /\ calls[i].sent[1].reply.kind = "throw"
        /\ calls[i].sent[1].reply.err.message = <<Prefix, " ", "ratelimited">>
        /\ calls[i].res.err.message = <<Prefix, " ", Prefix, " ", "ratelimited">>

\* the text part occurs in the text whole
Contains(whole, part) ==
    \E k \in 0..(Len(whole) - Len(part)) :
        SubSeq(whole, k + 1, k + Len(part)) = part

NonOk(i) ==
    /\ calls[i].sent[1].reply.kind = "http"
    /\ ~(calls[i].sent[1].reply.status \in 200..299)

\* C10: on the browser transport a response with a status outside 200-299
\* raises a failure whose message holds the status, and the body is neither
\* decoded nor its ok flag read.
C10_HttpStatusRaises ==
    \A i \in SentBy("browser") :
        NonOk(i) =>
            /\ calls[i].res.kind = "throw"
            /\ Contains(calls[i].res.err.message,
                        Digits(calls[i].sent[1].reply.status))
            /\ ~calls[i].sent[1].decoded
            /\ ~calls[i].sent[1].inspected

C10_Witness ==
    \E i \in SentBy("browser") :
        /\ calls[i].sent[1].reply.status = 500
        /\ calls[i].sent[1].reply.json = "data"
        /\ ~calls[i].sent[1].reply.data.ok
        /\ calls[i].res.err.message
             = <<Prefix, " ", "HTTP error! status: ", "5", "0", "0">>

\* the call was answered with a status in 200-299 and a body that decodes
Delivered(i) ==
    /\ calls[i].sent[1].reply.kind = "http"
    /\ ResponseOk(calls[i].sent[1].reply.status)
    /\ calls[i].sent[1].reply.json = "data"

\* the error code of a body, or the fallback text when it has none
CodeOrFallback(data) ==
    IF data.error.t = "string" /\ data.error.s # <<>> THEN data.error.s
    ELSE <<"Unknown API error">>

\* C11: on the browser transport a delivered body with ok = false raises a
\* failure whose message holds the body's error code, or "Unknown API error"
\* when the code is absent or empty, and every value the browser transport
\* returns has ok = true.
C11_ApiFailureRaises ==
    \A i \in SentBy("browser") :
        /\ (Delivered(i) /\ ~calls[i].sent[1].reply.data.ok) =>
              /\ calls[i].res.kind = "throw"
              /\ calls[i].res.err.isError
              /\ Contains(calls[i].res.err.message,
                          CodeOrFallback(calls[i].sent[1].reply.data))
              /\ calls[i].res.err.message[1] = Prefix
        /\ calls[i].res.kind = "return" =>
              /\ calls[i].res.data.ok
              /\ calls[i].res.data = calls[i].sent[1].reply.data

C11_Witness ==
    \E i \in SentBy("browser") :
        /\ Delivered(i)
        /\ calls[i].sent[1].reply.status = 299
        /\ calls[i].sent[1].reply.data = FailData(Str(<<>>))
        /\ calls[i].res = Throw(MkError(<<Prefix, " ", "Unknown API error">>))

WithOptions ==
    {"listConversations", "getThreadsView", "getConversationHistory",
     "getConversationReplies", "postMessage", "searchAll", "completeUpload"}

\* the keys of the outbound mapping that stand for options of the caller
OptionalKeys == DOMAIN calls[1].params \ (RequiredArgs \cup {"current_ts"})

\* C12: a facade operation with options hands request() an optional key only
\* when the caller supplied that option with a truthy value: no optional key
\* is sent for an option that is left out, undefined, empty or false.
C12_OptionalOnlyWhenTruthy ==
    (pc = "done" /\ op.name \in WithOptions) =>
        \A k \in OptionalKeys :
            /\ k \in DOMAIN op.args.options
            /\ Truthy(op.args.options[k])
            /\ Truthy(calls[1].params[k])

SlotCalls ==
    {i \in DOMAIN calls : calls[i].method = "files.getUploadURLExternal"}

\* C13: within one uploadFiles call at most one slot request or transfer is
\* under way at any time, the slot request of file i is under way only when
\* the slot requests and the transfers of the i - 1 files before it are all
\* settled, and the transfer of file i only when its slot request is settled.
C13_Sequential ==
    op.name = "uploadFiles" =>
        /\ Cardinality(inflight) <= 1
        /\ \A c \in inflight :
             /\ c.step = "slot" =>
                  /\ Cardinality(SlotCalls) = c.file - 1
                  /\ Len(transfers) = c.file - 1
                  /\ FailedTransfers = {}
             /\ c.step = "transfer" =>
                  /\ Cardinality(SlotCalls) = c.file
                  /\ Len(transfers) = c.file - 1

C13_Witness ==
    /\ op.name = "uploadFiles"
    /\ inflight = {Pending("slot", 2)}
    /\ Len(transfers) = 1
    /\ transfers[1].reply.status = 200

UploadSucceeded ==
    pc = "done" /\ op.name = "uploadFiles" /\ result.kind = "return"

\* C14: an uploadFiles call over M files that succeeds has made exactly one
\* finalize call, as its last call, after the M slot requests and the M
\* transfers have all succeeded, and that call carries M entries, the i-th
\* holding the identifier the slot request of file i returned; a finalize
\* call is never made before all M files are through both steps.
C14_FinalizeOnceInOrder ==
    LET M == Len(op.args.filePaths)
    IN  /\ UploadSucceeded =>
              /\ Len(calls) = M + 1
              /\ SlotCalls = 1..M
              /\ FinalizeCalls = {M + 1}
              /\ Len(fileEntries) = M
              /\ \A i \in 1..M :
                   fileEntries[i]["id"] = calls[i].res.data.payload.file_id
              /\ calls[M + 1].params["files"] = Str(JsonStringify(fileEntries))
        /\ (op.name = "uploadFiles" /\ FinalizeCalls # {}) =>
              /\ Len(transfers) = M
              /\ FailedTransfers = {}
              /\ Cardinality(SlotCalls) = M
              /\ Cardinality(FinalizeCalls) = 1
              /\ inflight = {}

C14_Witness ==
    /\ UploadSucceeded
    /\ Len(op.args.filePaths) = 2
    /\ calls[1].res.data.payload.file_id = Str(<<"F2">>)
    /\ calls[2].res.data.payload.file_id = Str(<<"F1">>)
    /\ calls[3].params["files"]
         = Str(<<"[", "{", "id:", "F2", "}", ",", "{", "id:", "F1", "}", "]">>)

\* uploadFiles: the files whose slot request failed
FailedSlots == {i \in SlotCalls : calls[i].res.kind = "throw"}

\* C15: in uploadFiles, once the slot request or the transfer of file i has
\* failed, the call has ended raising that failure, nothing is under way, no
\* slot request or transfer was made for a later file, a failed slot request
\* is followed by no transfer of file i, and no finalize call was made.
C15_FailFast ==
    op.name = "uploadFiles" =>
        /\ \A i \in FailedSlots :
             /\ pc = "done"
             /\ result = calls[i].res
             /\ Len(calls) = i
             /\ Len(transfers) = i - 1
        /\ \A i \in FailedTransfers :
             /\ pc = "done"
             /\ result.kind = "throw"
             /\ result.err = (IF transfers[i].reply.kind = "throw"
                              THEN transfers[i].reply.err
                              ELSE MkError(<<"File upload failed: HTTP ">>
                                           \o Digits(transfers[i].reply.status)))
             /\ Len(transfers) = i
             /\ Len(calls) = i
        /\ (FailedSlots # {} \/ FailedTransfers # {}) =>
             /\ FinalizeCalls = {}
             /\ inflight = {}
             /\ Cardinality(FailedSlots) + Cardinality(FailedTransfers) = 1

C15_Witness ==
    /\ op.name = "uploadFiles"
    /\ Len(op.args.filePaths) = 2
    /\ FailedSlots = {1}
    /\ transfers = <<>>
    /\ result.err.message = <<Prefix, " ", "channel_not_found">>

\* the transfer was answered with a status outside 200-299
RefusedTransfer(t) == t.reply.kind = "http" /\ ~ResponseOk(t.reply.status)

\* C16: a transfer answered with a status outside 200-299 ends uploadFiles
\* with the failure "File upload failed: HTTP <status>", which has no
\* "Slack API error:" prefix; a transfer is sent with no header and with the
\* file as its only part, and it is not a call of either transport.
C16_TransferFailureRaw ==
    /\ \A i \in DOMAIN transfers :
         /\ transfers[i].headers = {}
         /\ transfers[i].part = "file"
         /\ RefusedTransfer(transfers[i]) =>
              /\ result.kind = "throw"
              /\ result.err.isError
              /\ result.err.message
                   = <<"File upload failed: HTTP ">> \o Digits(transfers[i].reply.status)
              /\ ~StartsWithPrefix(result.err.message)
    /\ Len(wire) = Cardinality(SentCalls)

C16_Witness ==
    /\ op.name = "uploadFiles"
    /\ config.auth_type = "browser"
    /\ Len(op.args.filePaths) = 1
    /\ Len(transfers) = 1
    /\ RefusedTransfer(transfers[1])
    /\ Len(wire) = 1
    /\ result.err.message = <<"File upload failed: HTTP ", "3", "0", "0">>

\* the transport the configuration names at the time of the call
Selected == IF config.auth_type = "standard" THEN "standard" ELSE "browser"

\* C17: every request() call, whatever its outcome, puts at most one call on
\* the network, through the one transport the configuration selects, and
\* nothing else reaches the network: a failed call is neither sent again nor
\* sent through the other transport.
C17_NoFallbackNoRetry ==
    /\ \A i \in DOMAIN calls :
         /\ Len(calls[i].sent) <= 1
         /\ \A j \in DOMAIN calls[i].sent :
              /\ calls[i].sent[j].transport = Selected
              /\ calls[i].sent[j].method = calls[i].method
    /\ Len(wire) <= Len(calls)
    /\ \A j \in DOMAIN wire : wire[j].transport = Selected

C17_Witness ==
    /\ webClient
    /\ config.auth_type = "browser"
    /\ Len(calls) = 1
    /\ calls[1].res.kind = "throw"
    /\ Len(wire) = 1
    /\ wire[1].transport = "browser"

\* the configuration's mode does not match what the constructor initialized
NoLibraryClient == config.auth_type = "standard" /\ ~webClient
NotBrowser == config.auth_type \notin {"standard", "browser"}

\* C18: a call that enters the standard transport without a library client,
\* or the browser transport with a configuration that is not a browser one,
\* raises before anything is put on the network.
C18_MismatchFailsBeforeNetwork ==
    /\ NoLibraryClient =>
         /\ wire = <<>>
         /\ \A i \in DOMAIN calls :
              /\ calls[i].sent = <<>>
              /\ calls[i].res = Throw(MkError(<<"WebClient not initialized">>))
    /\ NotBrowser =>
         /\ wire = <<>>
         /\ \A i \in DOMAIN calls :
              /\ calls[i].sent = <<>>
              /\ calls[i].res = Throw(MkError(<<"Invalid auth type">>))

C18_Witness ==
    /\ NotBrowser
    /\ op.name = "postMessage"
    /\ result = Throw(MkError(<<"Invalid auth type">>))
    /\ wire = <<>>

\* the operations with a numeric option, by what they do with it
Stringifying == {"getThreadsView", "searchAll"}
PassingOn ==
    {"listConversations", "getConversationHistory", "getConversationReplies"}
NumericKeys == {"limit", "count", "page"}

\* the numeric options the caller gave as numbers that are in the mapping
NumbersSent ==
    {k \in NumericKeys \cap DOMAIN op.args.options \cap DOMAIN calls[1].params :
        op.args.options[k].t = "number"}

\* C19 as stated: every numeric option of a facade operation is in the
\* mapping handed to request() as its string representation.
C19_NumericAsText ==
    /\ (pc = "done" /\ op.name \in Stringifying \cup PassingOn) =>
          \A k \in NumbersSent :
              calls[1].params[k] = Str(Digits(op.args.options[k].n))
    /\ (pc = "done" /\ op.name = "getUploadUrl") =>
          calls[1].params["length"] = Str(Digits(op.args["length"].n))

\* C19 amended: limit of getThreadsView, count and page of searchAll and
\* length of getUploadUrl are in the mapping as their string representation;
\* limit of listConversations, getConversationHistory and
\* getConversationReplies is in the mapping as the number the caller gave,
\* and becomes its decimal text only in the form body of the browser
\* transport.
C19_NumericTextOrVerbatim ==
    /\ (pc = "done" /\ op.name \in Stringifying) =>
          \A k \in NumbersSent :
              calls[1].params[k] = Str(Digits(op.args.options[k].n))
    /\ (pc = "done" /\ op.name = "getUploadUrl") =>
          calls[1].params["length"] = Str(Digits(op.args["length"].n))
    /\ (pc = "done" /\ op.name \in PassingOn) =>
          \A k \in NumbersSent :
              /\ calls[1].params[k] = op.args.options[k]
              /\ \A j \in DOMAIN calls[1].sent :
                   calls[1].sent[j].transport = "browser" =>
                       calls[1].sent[j].body[k] = Digits(op.args.options[k].n)

C19_Witness ==
    /\ pc = "done"
    /\ op.name = "getConversationHistory"
    /\ NumbersSent = {"limit"}
    /\ calls[1].params["limit"] = Num(5)
    /\ calls[1].sent # <<>>
    /\ calls[1].sent[1].transport = "browser"
    /\ calls[1].sent[1].body["limit"] = <<"5">>

WithSink ==
    op.name = "uploadFiles" /\ Get(op.args.options, "onProgress") # Undefined

\* the steps of uploadFiles that are through
SlotsAcquired == SlotCalls \ FailedSlots
TransfersDone == DOMAIN transfers \ FailedTransfers
\* the slot requests made so far, settled or not
SlotsAsked ==
    Cardinality(SlotCalls) + Cardinality({c \in inflight : c.step = "slot"})

\* what the sink is told about file i
StepOf(i) ==
    <<"Uploading file ">> \o Digits(i) \o <<"/">>
    \o Digits(Len(op.args.filePaths))
    \o <<": ", FileName(op.args.filePaths[i].path)>>

\* C20 as stated: the sink has been called once for every slot acquired,
\* once for every transfer done and once for the finalize call.
C20_ReportedAfterEachStep ==
    WithSink =>
        Len(progress) = Cardinality(SlotsAcquired) + Cardinality(TransfersDone)
                        + Cardinality(FinalizeCalls)

\* C20 amended: the sink is called once for each file, when its slot request
\* is made, with "Uploading file i/M: name", and once with "Finalizing
\* upload..." when the finalize call is made, in that order; without a sink
\* nothing is reported.
C20_ReportedBeforeEachSlot ==
    op.name = "uploadFiles" =>
        /\ WithSink =>
             /\ Len(progress) = SlotsAsked + Cardinality(FinalizeCalls)
             /\ \A i \in 1..SlotsAsked : progress[i] = StepOf(i)
             /\ FinalizeCalls # {} =>
                  progress[Len(progress)] = <<"Finalizing upload...">>
        /\ ~WithSink => progress = <<>>

C20_Witness ==
    /\ WithSink
    /\ UploadSucceeded
    /\ Len(op.args.filePaths) = 2
    /\ Len(progress) = 3
    /\ progress[2] = <<"Uploading file ", "2", "/", "2", ": ", "file">>
    /\ progress[3] = <<"Finalizing upload...">>

\* the lookups of getUsersInfo made so far, settled or not
LookupsIssued == Len(calls) + Cardinality(inflight)

\* C21 as stated: getUsersInfo has issued all N lookups by the time it waits
\* for one of them.
C21_LookupsConcurrent ==
    (op.name = "getUsersInfo" /\ pc = "userswait") =>
        LookupsIssued = Len(op.args.userIds)

\* the lookups whose user is kept, in the order they were made
KeptLookups ==
    SelectSeq(calls, LAMBDA c : /\ c.res.kind = "return"
                                /\ c.res.data.ok
                                /\ Truthy(c.res.data.payload.user))

\* C21 amended: getUsersInfo makes its lookups one after the other in list
\* order: a lookup is issued only when none is under way, lookup i only when
\* the i - 1 before it are settled, and the result lists the resolved users
\* in the order of the identifiers.
C21_LookupsOneByOne ==
    op.name = "getUsersInfo" =>
        /\ Cardinality(inflight) <= 1
        /\ pc = "users" => inflight = {}
        /\ \A c \in inflight : c.step = "lookup" /\ Len(calls) = c.file - 1
        /\ \A i \in DOMAIN calls :
             calls[i].params["user"] = op.args.userIds[i]
        /\ UsersDone =>
             result.data.payload.users
               = [j \in DOMAIN KeptLookups |-> KeptLookups[j].res.data.payload.user]

C21_Witness ==
    /\ op.name = "getUsersInfo"
    /\ Len(op.args.userIds) = 3
    /\ inflight = {Pending("lookup", 2)}
    /\ Len(calls) = 1

\* list-unreads has its unread entries: client.counts has answered
Resolving ==
    /\ op.name = "list-unreads"
    /\ calls[1].res.kind = "return"

\* the settled channel lookups of list-unreads, and the entry of each
InfoCalls == {j \in DOMAIN calls : calls[j].method = "conversations.info"}
EntryOf(j) ==
    CHOOSE i \in DOMAIN local.entries :
        local.entries[i].id = calls[j].params["channel"]

\* the lookup came back without a channel
Channelless(j) ==
    \/ calls[j].res.kind = "throw"
    \/ calls[j].res.data.payload.channel = Undefined

\* C22: list-unreads issues the channel lookups of all its unread entries
\* together; in whatever order they are settled and whichever of them fail,
\* the resolved list holds at the place of each entry the channel of its
\* lookup, or { id } of the entry when the lookup failed or had no channel,
\* and the command ends successfully with one channel per entry.
C22_LookupsIsolated ==
    Resolving =>
        LET N == Len(local.entries)
            settled == DOMAIN local.resolved
            underWay == {c.file : c \in {d \in inflight : d.step = "info"}}
        IN  /\ settled \cup underWay = 1..N
            /\ settled \cap underWay = {}
            /\ Cardinality(InfoCalls) = Cardinality(settled)
            /\ \A j \in InfoCalls :
                 /\ EntryOf(j) \in settled
                 /\ local.resolved[EntryOf(j)]
                      = (IF Channelless(j) THEN [id |-> local.entries[EntryOf(j)].id]
                         ELSE calls[j].res.data.payload.channel)
            /\ \A i \in settled : local.resolved[i].id = local.entries[i].id
            /\ pc = "done" =>
                 /\ result.kind = "return"
                 /\ result.data.payload.unread_count = N
                 /\ result.data.payload.channels = local.resolved
                 /\ DOMAIN local.resolved = 1..N

C22_Witness ==
    /\ op.name = "list-unreads"
    /\ pc = "done"
    /\ result.kind = "return"
    /\ Len(local.entries) = 3
    /\ calls[2].params["channel"] = local.entries[3].id
    /\ calls[3].params["channel"] = local.entries[1].id
    /\ calls[3].res.kind = "throw"
    /\ result.data.payload.channels[1] = [id |-> local.entries[1].id]
    /\ "is_im" \in DOMAIN result.data.payload.channels[3]

\* the users a sequence of lookups resolves, in the order of the lookups
KeptOf(cs) ==
    LET kept == SelectSeq(cs, LAMBDA c : /\ c.res.kind = "return"
                                         /\ c.res.data.ok
                                         /\ Truthy(c.res.data.payload.user))
    IN  [j \in DOMAIN kept |-> kept[j].res.data.payload.user]

\* the entries an uploadFiles call of M files has when it finalizes: one for
\* each of its own slot responses
OwnEntries(cs, M) == [i \in 1..M |-> [id |-> cs[i].res.data.payload.file_id]]

\* C23: when two operations run concurrently on one client, in whatever
\* order their steps interleave, the calls and the result of each are those
\* its own arguments and the answers to its own calls give: getUsersInfo
\* returns the users of its own lookups, and uploadFiles finalizes with the
\* identifiers of its own slot requests, never with another call's.
C23_OperationsIndependent ==
    \A p \in Procs :
        LET s == procs[p]
        IN  /\ s.op.name = "getUsersInfo" =>
                 /\ \A i \in DOMAIN s.calls :
                      s.calls[i].params = GetUserInfoParams(s.op.args.userIds[i])
                 /\ s.pc = "done" =>
                      /\ Len(s.calls) = Len(s.op.args.userIds)
                      /\ s.result = Return([ok |-> TRUE, error |-> Undefined,
                                            payload |-> [users |-> KeptOf(s.calls)]])
            /\ s.op.name = "uploadFiles" =>
                 LET M == Len(s.op.args.filePaths)
                 IN  /\ \A i \in DOMAIN s.calls :
                          i <= M =>
                            /\ s.calls[i].method = "files.getUploadURLExternal"
                            /\ s.calls[i].params
                                 = GetUploadUrlParams(
                                      Str(<<FileName(s.op.args.filePaths[i].path)>>),
                                      Num(s.op.args.filePaths[i].length))
                     /\ \A i \in DOMAIN s.transfers :
                          s.transfers[i].url = s.calls[i].res.data.payload.upload_url
                     /\ Len(s.calls) = M + 1 =>
                          /\ s.calls[M + 1].method = "files.completeUploadExternal"
                          /\ s.calls[M + 1].params["files"]
                               = Str(JsonStringify(OwnEntries(s.calls, M)))
                          /\ s.result = s.calls[M + 1].res

C23_Witness ==
    /\ procs[1].op.name = "uploadFiles"
    /\ procs[1].pc = "transferwait"
    /\ procs[1].idx = 2
    /\ procs[2].op.name = "uploadFiles"
    /\ procs[2].pc = "done"
    /\ Len(procs[2].calls) = 3
    /\ procs[2].calls[3].params["files"]
         = Str(<<"[", "{", "id:", "F", "2", "1", "}", ",",
                 "{", "id:", "F", "2", "2", "}", "]">>)

HistoryCalls == {i \in DOMAIN calls : calls[i].method = "conversations.history"}

\* mark-read as two calls: the history of the conversation with limit 1
\* first, a mark only as the second call and with the ts of the first
\* message returned, and none after a failed history call
FetchThenMark ==
    /\ calls # <<>> =>
         /\ calls[1].method = "conversations.history"
         /\ calls[1].params["channel"] = op.args.channelId
         /\ calls[1].params["limit"] = Num(1)
    /\ pc = "mark" => calls # <<>>
    /\ \A i \in MarkCalls :
         /\ i = 2
         /\ calls[1].res.kind = "return"
         /\ calls[2].params
              = MarkConversationReadParams(op.args.channelId,
                    calls[1].res.data.payload.messages[1].ts)
    /\ (calls # <<>> /\ calls[1].res.kind = "throw") =>
         /\ MarkCalls = {}
         /\ pc = "done"
         /\ result = calls[1].res

\* mark-read as one call: a mark with the timestamp given, no history call
MarkOnly ==
    /\ HistoryCalls = {}
    /\ \A i \in MarkCalls :
         /\ i = 1
         /\ calls[1].params
              = MarkConversationReadParams(op.args.channelId, op.args.timestamp)
    /\ pc = "done" => MarkCalls = {1}

\* C24 as stated: mark-read fetches the history and then marks exactly when
\* no timestamp is given; with any timestamp given it makes the mark call
\* alone, with that timestamp.
C24_CompositeOnlyWithoutTimestamp ==
    op.name = "mark-read" =>
        IF op.args.timestamp = Undefined THEN FetchThenMark ELSE MarkOnly

\* C24: mark-read without a timestamp, or with an empty one, first fetches
\* the history with limit 1 and then, if there is a message, marks with the
\* ts of the first message returned, never marking before the fetch and not
\* at all after a failed fetch; with a non-empty timestamp it makes the mark
\* call alone, with exactly that timestamp.
C24_CompositeWithoutUsableTimestamp ==
    op.name = "mark-read" =>
        IF ~Truthy(op.args.timestamp) THEN FetchThenMark ELSE MarkOnly

C24_Witness ==
    /\ op.name = "mark-read"
    /\ op.args.timestamp = Str(<<>>)
    /\ pc = "done"
    /\ Len(calls) = 2
    /\ Len(calls[1].res.data.payload.messages) = 2
    /\ calls[2].method = "conversations.mark"
    /\ calls[2].sent # <<>>

\* C25: every call sent by the browser transport carries, under the key
\* `token` of its form body, the xoxc_token of the configuration, whatever
\* the parameter mapping holds, a `token` key of its own included.
C25_ConfiguredTokenSent ==
    \A i \in SentBy("browser") :
        /\ "token" \in DOMAIN calls[i].sent[1].body
        /\ calls[i].sent[1].body["token"] = ToStringJS(Get(config, "xoxc_token"))

\* uploadFiles was given a title for file i: titles[i] is there and not empty
Titled(i) ==
    LET titles == Get(op.args.options, "titles")
    IN  /\ titles.t = "array"
        /\ i <= Len(titles.s)
        /\ titles.s[i] # Undefined
        /\ titles.s[i] # Str(<<>>)

\* C26: in uploadFiles the entry of file i has a title exactly when
\* titles[i] is there and not empty, and the title is titles[i]: a title is
\* never taken from another index, and no entry has a title that is
\* undefined.
C26_TitlesByIndex ==
    op.name = "uploadFiles" =>
        \A i \in DOMAIN fileEntries :
            /\ ("title" \in DOMAIN fileEntries[i]) <=> Titled(i)
            /\ Titled(i) =>
                 fileEntries[i]["title"] = op.args.options["titles"].s[i]
            /\ "title" \in DOMAIN fileEntries[i] =>
                 fileEntries[i]["title"] # Undefined

C26_Witness ==
    /\ op.name = "uploadFiles"
    /\ Len(fileEntries) = 2
    /\ Get(op.args.options, "titles") = Arr(<<Str(<<>>), Str(<<"t2">>)>>)
    /\ "title" \notin DOMAIN fileEntries[1]
    /\ fileEntries[2]["title"] = Str(<<"t2">>)

\* uploadFiles was called with no file
NoFiles == op.name = "uploadFiles" /\ op.args.filePaths = <<>>

\* C27: uploadFiles with an empty list of files asks for no upload slot and
\* makes no transfer, and its only call is one finalize call,
\* files.completeUploadExternal, whose `files` is the empty list; the call
\* ends as that call ends.
C27_EmptyListFinalizesOnce ==
    NoFiles =>
        /\ SlotCalls = {}
        /\ transfers = <<>>
        /\ inflight = {}
        /\ pc \in {"slot", "done"}
        /\ pc = "slot" => calls = <<>>
        /\ pc = "done" =>
             /\ Len(calls) = 1
             /\ calls[1].method = "files.completeUploadExternal"
             /\ "files" \in DOMAIN calls[1].params
             /\ calls[1].params["files"] = Str(<<"[", "]">>)
             /\ result = calls[1].res

C27_Witness ==
    /\ NoFiles
    /\ pc = "done"
    /\ result.kind = "return"
    /\ calls[1].sent # <<>>
    /\ calls[1].params["files"] = Str(<<"[", "]">>)

====
